---- MODULE Spec2Model ----
(***************************************************************************)
(* Gold-truth evaluation engine of CLiTR-Bench                             *)
(* (src/gold_truth_engine/gold_truth_engine.py).                           *)
(*                                                                         *)
(* The four measure evaluators are pure functions of one patient's         *)
(* demographics, encounters and clinical events and of the engine's index  *)
(* date.  The state is one call: the engine's index date, the arguments,   *)
(* and the returned result dictionary or the exception raised; and, for    *)
(* the cohort data store, the CSV files and the engine's caches.           *)
(*                                                                         *)
(* Representation.  A date string "YYYY-MM-DD" is the triple <<Y, M, D>>;  *)
(* parse_date turns it into a date record.  A numeric string is kept as a  *)
(* string and float() is modelled by FloatOf, in tenths.  Python's None is *)
(* the value None.  A dictionary is a record; a key the code never sets is *)
(* absent from the record's DOMAIN.                                        *)
(***************************************************************************)
EXTENDS Integers, Sequences, FiniteSets, TLC

VARIABLES index_date, measure, patient, encounters, events, result, pc

\* The canonical CSV files, the engine's caches, and a record of the calls of
\* preload_cohort and load_patient_data.
VARIABLES files, present, cache_patients, cache_encounters, cache_events,
          target_cohort, last_call, fetched, handled, preloaded

eval_vars == <<index_date, measure, patient, encounters, events, result, pc>>

store_vars == <<files, present, cache_patients, cache_encounters, cache_events,
                target_cohort, last_call, fetched, handled, preloaded>>

\* The LLM runner: the provider chosen at construction, the position of one
\* evaluate_patient call, the retry loop's index, the API calls made so far,
\* the last exception text, whether the retries ran out, the string returned
\* by _call_llm_api and the record returned by evaluate_patient.
VARIABLES provider, runner_pc, attempt, api_calls, last_error, exhausted,
          raw_response, record

llm_vars == <<provider, runner_pc, attempt, api_calls, last_error, exhausted,
              raw_response, record>>

vars == <<eval_vars, store_vars, llm_vars>>

(***************************************************************************)
(* Bounds of the model.                                                    *)
(***************************************************************************)
MaxEvents == 2

MaxCalls == 3

None == [none |-> TRUE]

(***************************************************************************)
(* datetime.date : parsing, ordering, subtraction                          *)
(***************************************************************************)
parse_date(d_str) == [year |-> d_str[1], month |-> d_str[2], day |-> d_str[3]]

date(y, m, d) == [year |-> y, month |-> m, day |-> d]

IsLeap(y) == (y % 4 = 0) /\ ((y % 100 # 0) \/ (y % 400 = 0))

DaysInMonth(y, m) ==
    CASE m \in {1, 3, 5, 7, 8, 10, 12} -> 31
      [] m \in {4, 6, 9, 11} -> 30
      [] OTHER -> IF IsLeap(y) THEN 29 ELSE 28

RECURSIVE DaysBeforeMonth(_, _)
DaysBeforeMonth(y, m) ==
    IF m = 1 THEN 0 ELSE DaysBeforeMonth(y, m - 1) + DaysInMonth(y, m - 1)

DaysBeforeYear(y) ==
    (y - 1) * 365 + ((y - 1) \div 4) - ((y - 1) \div 100) + ((y - 1) \div 400)

\* date.toordinal(): day number in the proleptic Gregorian calendar
toordinal(dt) == DaysBeforeYear(dt.year) + DaysBeforeMonth(dt.year, dt.month) + dt.day

\* (a - b).days
days_between(a, b) == toordinal(a) - toordinal(b)

\* a < b on dates
date_lt(a, b) ==
    \/ a.year < b.year
    \/ a.year = b.year /\ a.month < b.month
    \/ a.year = b.year /\ a.month = b.month /\ a.day < b.day

date_le(a, b) == a = b \/ date_lt(a, b)

\* Mutant: the birthday itself counts as not yet reached.
calculate_age_birthday_late(dob, idx) ==
    idx.year - dob.year
      - (IF idx.month < dob.month \/ (idx.month = dob.month /\ idx.day <= dob.day)
         THEN 1 ELSE 0)

calculate_age(dob, idx) ==
    idx.year - dob.year
      - (IF idx.month < dob.month \/ (idx.month = dob.month /\ idx.day < dob.day)
         THEN 1 ELSE 0)

(***************************************************************************)
(* list.sort(key = parse_date(event_date), reverse = True): stable, so     *)
(* events of equal date keep their order in the list.                      *)
(***************************************************************************)
RECURSIVE InsertDesc(_, _)
InsertDesc(ev, sorted) ==
    IF sorted = <<>> THEN <<ev>>
    ELSE IF date_lt(parse_date(Head(sorted).event_date), parse_date(ev.event_date))
         THEN <<ev>> \o sorted
         ELSE <<Head(sorted)>> \o InsertDesc(ev, Tail(sorted))

RECURSIVE sort_by_date_desc(_)
sort_by_date_desc(evs) ==
    IF evs = <<>> THEN <<>>
    ELSE InsertDesc(evs[Len(evs)], sort_by_date_desc(SubSeq(evs, 1, Len(evs) - 1)))

(***************************************************************************)
(* float(value_num), in tenths.  A string outside the table makes float    *)
(* raise ValueError; the empty string is falsy and never reaches float.    *)
(***************************************************************************)
FloatTable ==
    [s \in {"7.5", "9.0", "10.5", "85", "95", "135", "145"} |->
        CASE s = "7.5" -> 75
          [] s = "9.0" -> 90
          [] s = "10.5" -> 105
          [] s = "85" -> 850
          [] s = "95" -> 950
          [] s = "135" -> 1350
          [] s = "145" -> 1450]

float_ok(s) == s \in DOMAIN FloatTable

FloatOf(s) == FloatTable[s]

truthy(s) == s # ""

(***************************************************************************)
(* self.code_maps: measure -> value-set name + "_CODES" -> set of codes.   *)
(* One representative code per value set of the terminology asset.         *)
(***************************************************************************)
code_maps ==
    [CMS125 |->
        [Mammography |-> {"77067"},
         BilateralMastectomy |-> {"Z90.13"},
         AbsenceOfLeftBreast |-> {"Z90.12"},
         UnilateralMastectomyLeft |-> {"0HTU0ZZ"},
         AbsenceOfRightBreast |-> {"Z90.11"},
         UnilateralMastectomyRight |-> {"0HTT0ZZ"}],
     CMS130 |->
        [ColorectalCancerExclusion |-> {"C18.9"},
         TotalColectomyExclusion |-> {"44150"},
         Colonoscopy |-> {"45378"},
         FIT |-> {"82274"}],
     CMS165 |->
        [EssentialHypertension |-> {"I10"},
         ESRDExclusion |-> {"N18.6"},
         PregnancyExclusion |-> {"Z33.1"},
         HospiceExclusion |-> {"Z51.5H"},
         PalliativeCareExclusion |-> {"Z51.5"},
         FrailtyExclusion |-> {"R54"},
         AdvancedIllnessExclusion |-> {"F03.90"},
         DementiaMedicationsExclusion |-> {"997223"},
         LTCExclusion |-> {"99304"},
         SystolicBloodPressure |-> {"8480-6"},
         DiastolicBloodPressure |-> {"8462-4"}],
     CMS122 |->
        [Diabetes |-> {"E11.9"},
         HbA1cTest |-> {"4548-4"}]]

\* any(parse_date(e['encounter_date']).year == self.index_date.year for e in encounters)
has_encounter_in_year(encs) ==
    \E i \in DOMAIN encs : parse_date(encs[i].encounter_date).year = index_date.year

(***************************************************************************)
(* evaluate_cms125 : Breast Cancer Screening                               *)
(***************************************************************************)
empty_result ==
    [initial_population |-> FALSE, denominator |-> FALSE, numerator |-> FALSE,
     exclusion |-> FALSE, exclusion_reason |-> "None", evidence |-> None]

\* Mutant: the denominator is set without testing the exclusion.
set_denominator_unguarded(r) == [r EXCEPT !.denominator = TRUE]

\* Mutant: an excluded patient is taken out of the initial population.
set_denominator_clears_population(r) ==
    IF ~r.exclusion THEN [r EXCEPT !.denominator = TRUE]
    ELSE [r EXCEPT !.initial_population = FALSE]

\* if not result['exclusion']: result['denominator'] = True
set_denominator(r) == IF ~r.exclusion THEN [r EXCEPT !.denominator = TRUE] ELSE r

\* Mutant: the evidence is the first qualifying row, the sort forgotten.
set_numerator_unsorted(r, valid) ==
    IF valid # <<>>
    THEN [r EXCEPT !.numerator = TRUE, !.evidence = Head(valid)]
    ELSE r

\* result['numerator'] = True; result['evidence'] = valid[0], after the sort
set_numerator(r, valid) ==
    IF valid # <<>>
    THEN [r EXCEPT !.numerator = TRUE, !.evidence = Head(sort_by_date_desc(valid))]
    ELSE r

cms125_age_min == 52
cms125_age_max == 74
cms125_lookback_days == 821

\* Mutant: the first day of the window is left out.
cms125_in_window_open(ev) ==
    LET days_diff == days_between(index_date, parse_date(ev.event_date))
    IN  0 <= days_diff /\ days_diff < cms125_lookback_days

cms125_in_window(ev) ==
    LET days_diff == days_between(index_date, parse_date(ev.event_date))
    IN  0 <= days_diff /\ days_diff <= cms125_lookback_days

cms125_valid_mammos(evs) ==
    LET map_bcs == code_maps.CMS125
        keep(ev) == ev.code \in map_bcs.Mammography /\ cms125_in_window(ev)
    IN  SelectSeq(evs, keep)

\* Mutant: one removed side is enough to exclude.
cms125_excluded_either_side(evs) ==
    LET map_bcs == code_maps.CMS125
        seen(codes) ==
            \E i \in DOMAIN evs :
                /\ ~(parse_date(evs[i].event_date).year > index_date.year)
                /\ evs[i].code \in codes
        has_bilateral == seen(map_bcs.BilateralMastectomy)
        has_left == seen(map_bcs.AbsenceOfLeftBreast \cup map_bcs.UnilateralMastectomyLeft)
        has_right == seen(map_bcs.AbsenceOfRightBreast \cup map_bcs.UnilateralMastectomyRight)
    IN  has_bilateral \/ (has_left \/ has_right)

cms125_excluded(evs) ==
    LET map_bcs == code_maps.CMS125
        seen(codes) ==
            \E i \in DOMAIN evs :
                /\ ~(parse_date(evs[i].event_date).year > index_date.year)
                /\ evs[i].code \in codes
        has_bilateral == seen(map_bcs.BilateralMastectomy)
        has_left == seen(map_bcs.AbsenceOfLeftBreast \cup map_bcs.UnilateralMastectomyLeft)
        has_right == seen(map_bcs.AbsenceOfRightBreast \cup map_bcs.UnilateralMastectomyRight)
    IN  has_bilateral \/ (has_left /\ has_right)

cms125_age_ok(age) == cms125_age_min <= age /\ age <= cms125_age_max

evaluate_cms125(pat, encs, evs) ==
    IF pat = None \/ pat.sex # "F" THEN empty_result
    ELSE
    LET age == calculate_age(parse_date(pat.dob), index_date)
        r1 == [empty_result EXCEPT !.initial_population = cms125_age_ok(age)]
    IN  IF ~r1.initial_population \/ ~has_encounter_in_year(encs) THEN r1
        ELSE
        LET r2 == IF cms125_excluded(evs)
                  THEN [r1 EXCEPT !.exclusion = TRUE,
                                  !.exclusion_reason = "Bilateral mastectomy or equivalent"]
                  ELSE r1
            r3 == set_denominator(r2)
        IN  IF r3.denominator THEN set_numerator(r3, cms125_valid_mammos(evs)) ELSE r3

(***************************************************************************)
(* evaluate_cms130 : Colorectal Cancer Screening                           *)
(***************************************************************************)
cms130_age_min == 45
cms130_age_max == 75
cms130_colonoscopy_days == 3650
cms130_fit_days == 365

\* The exclusion loop: each matching event overwrites the reason.
RECURSIVE cms130_exclusion_scan(_, _)
cms130_exclusion_scan(evs, r) ==
    IF evs = <<>> THEN r
    ELSE
    LET map_col == code_maps.CMS130
        ev == Head(evs)
        r_next ==
            IF parse_date(ev.event_date).year > index_date.year THEN r
            ELSE IF ev.code \in map_col.ColorectalCancerExclusion
            THEN [r EXCEPT !.exclusion = TRUE, !.exclusion_reason = "Colorectal Cancer"]
            ELSE IF ev.code \in map_col.TotalColectomyExclusion
            THEN [r EXCEPT !.exclusion = TRUE, !.exclusion_reason = "Total Colectomy"]
            ELSE r
    IN  cms130_exclusion_scan(Tail(evs), r_next)

\* The screening loop: an event is appended once per matching test.
RECURSIVE cms130_valid_screenings(_)
cms130_valid_screenings(evs) ==
    IF evs = <<>> THEN <<>>
    ELSE
    LET map_col == code_maps.CMS130
        ev == Head(evs)
        days_diff == days_between(index_date, parse_date(ev.event_date))
        as_colonoscopy ==
            IF ev.code \in map_col.Colonoscopy /\ days_diff <= cms130_colonoscopy_days
            THEN <<ev>> ELSE <<>>
        as_fit ==
            IF ev.code \in map_col.FIT /\ days_diff <= cms130_fit_days
            THEN <<ev>> ELSE <<>>
    IN  (IF days_diff < 0 THEN <<>> ELSE as_colonoscopy \o as_fit)
            \o cms130_valid_screenings(Tail(evs))

cms130_age_ok(age) == cms130_age_min <= age /\ age <= cms130_age_max

evaluate_cms130(pat, encs, evs) ==
    IF pat = None THEN empty_result
    ELSE
    LET age == calculate_age(parse_date(pat.dob), index_date)
        r1 == [empty_result EXCEPT !.initial_population = cms130_age_ok(age)]
    IN  IF ~r1.initial_population \/ ~has_encounter_in_year(encs) THEN r1
        ELSE
        LET r2 == cms130_exclusion_scan(evs, r1)
            r3 == set_denominator(r2)
        IN  IF r3.denominator THEN set_numerator(r3, cms130_valid_screenings(evs)) ELSE r3

(***************************************************************************)
(* evaluate_cms165 : Controlling High Blood Pressure                       *)
(***************************************************************************)
cms165_age_min == 18
cms165_age_max == 85
cms165_sys_limit == 1400   \* 140, in tenths
cms165_dia_limit == 900    \* 90, in tenths

cms165_age_ok(age) == cms165_age_min <= age /\ age <= cms165_age_max

\* Mutant: any diagnosis of the index year counts.
cms165_htn_cutoff_year_end(Y) == date(Y, 12, 31)

\* date(self.index_date.year, 6, 30)
cms165_htn_cutoff(Y) == date(Y, 6, 30)

\* The flags of the single scan over the events (lines 194-217).
cms165_flags(evs) ==
    LET map_cbp == code_maps.CMS165
        Y == index_date.year
        edate(i) == parse_date(evs[i].event_date)
        \* tested before the `continue` on later years
        has_htn ==
            \E i \in DOMAIN evs :
                /\ evs[i].code \in map_cbp.EssentialHypertension
                /\ date_le(edate(i), cms165_htn_cutoff(Y))
        upto(codes) ==
            \E i \in DOMAIN evs : edate(i).year <= Y /\ evs[i].code \in codes
        inyear(codes) ==
            \E i \in DOMAIN evs : edate(i).year = Y /\ evs[i].code \in codes
        lastTwo(codes) ==
            \E i \in DOMAIN evs :
                /\ Y - 1 <= edate(i).year /\ edate(i).year <= Y
                /\ evs[i].code \in codes
    IN  [has_htn |-> has_htn,
         has_esrd |-> upto(map_cbp.ESRDExclusion),
         has_pregnancy |-> inyear(map_cbp.PregnancyExclusion),
         has_hospice_or_pallas |->
             inyear(map_cbp.HospiceExclusion) \/ inyear(map_cbp.PalliativeCareExclusion),
         has_frailty |-> inyear(map_cbp.FrailtyExclusion),
         has_advanced_illness |->
             lastTwo(map_cbp.AdvancedIllnessExclusion
                        \cup map_cbp.DementiaMedicationsExclusion),
         has_ltc |-> upto(map_cbp.LTCExclusion)]

\* Mutant: the diagnosis-based reasons before hospice / palliative care.
cms165_exclusion_reason_esrd_first(age, f) ==
    IF f.has_esrd THEN "ESRD Diagnosis"
    ELSE IF f.has_pregnancy THEN "Pregnancy"
    ELSE IF f.has_hospice_or_pallas THEN "Hospice or Palliative Care"
    ELSE IF age >= 66 /\ f.has_ltc THEN "Age >= 66 in LTC"
    ELSE IF 66 <= age /\ age <= 80 /\ f.has_frailty /\ f.has_advanced_illness
         THEN "Age 66-80 with Frailty and Advanced Illness"
    ELSE IF age >= 81 /\ f.has_frailty THEN "Age >= 81 with Frailty"
    ELSE "None"

\* The if / elif chain of lines 225-236; "None" when no branch is taken.
cms165_exclusion_reason(age, f) ==
    IF f.has_hospice_or_pallas THEN "Hospice or Palliative Care"
    ELSE IF f.has_esrd THEN "ESRD Diagnosis"
    ELSE IF f.has_pregnancy THEN "Pregnancy"
    ELSE IF age >= 66 /\ f.has_ltc THEN "Age >= 66 in LTC"
    ELSE IF 66 <= age /\ age <= 80 /\ f.has_frailty /\ f.has_advanced_illness
         THEN "Age 66-80 with Frailty and Advanced Illness"
    ELSE IF age >= 81 /\ f.has_frailty THEN "Age >= 81 with Frailty"
    ELSE "None"

\* A row that enters readings_by_date[...][kind]: in the index year, a truthy
\* value that float() accepts, systolic tested before diastolic (elif).
cms165_is_reading(ev, kind) ==
    LET map_cbp == code_maps.CMS165
    IN  /\ parse_date(ev.event_date).year = index_date.year
        /\ truthy(ev.value_num)
        /\ float_ok(ev.value_num)
        /\ IF kind = "sys" THEN ev.code \in map_cbp.SystolicBloodPressure
           ELSE /\ ev.code \notin map_cbp.SystolicBloodPressure
                /\ ev.code \in map_cbp.DiastolicBloodPressure

\* readings_by_date[d][kind + "_ev"], in list order
cms165_readings(evs, d, kind) ==
    LET keep(ev) == ev.event_date = d /\ cms165_is_reading(ev, kind)
    IN  SelectSeq(evs, keep)

\* Mutant: the first reading of the day instead of the lowest.
cms165_min_first(reads) == FloatOf(reads[1].value_num)

\* min(reads[kind])
cms165_min(reads) ==
    CHOOSE v \in {FloatOf(reads[i].value_num) : i \in DOMAIN reads} :
        \A i \in DOMAIN reads : v <= FloatOf(reads[i].value_num)

\* valid_days, and the head of its sort by date, descending
cms165_valid_days(evs) ==
    {evs[i].event_date : i \in
        {j \in DOMAIN evs :
            /\ cms165_readings(evs, evs[j].event_date, "sys") # <<>>
            /\ cms165_readings(evs, evs[j].event_date, "dia") # <<>>}}

cms165_most_recent(days) ==
    CHOOSE d \in days : \A e \in days : date_le(parse_date(e), parse_date(d))

\* reads['sys_ev'][reads['sys'].index(min_sys)]
cms165_first_with(reads, v) ==
    reads[CHOOSE i \in DOMAIN reads :
            /\ FloatOf(reads[i].value_num) = v
            /\ \A j \in 1..(i - 1) : FloatOf(reads[j].value_num) # v]

cms165_numerator(r, evs) ==
    LET valid_days == cms165_valid_days(evs)
    IN  IF valid_days = {} THEN r
        ELSE
        LET most_recent == cms165_most_recent(valid_days)
            sys == cms165_readings(evs, most_recent, "sys")
            dia == cms165_readings(evs, most_recent, "dia")
            min_sys == cms165_min(sys)
            min_dia == cms165_min(dia)
            r1 == [r EXCEPT !.evidence = cms165_first_with(sys, min_sys)]
        IN  IF min_sys < cms165_sys_limit /\ min_dia < cms165_dia_limit
            THEN [r1 EXCEPT !.numerator = TRUE]
            ELSE r1

evaluate_cms165(pat, encs, evs) ==
    IF pat = None THEN empty_result
    ELSE
    LET age == calculate_age(parse_date(pat.dob), index_date)
        age_pass == cms165_age_ok(age)
        has_encounter == has_encounter_in_year(encs)
    IN  IF ~age_pass \/ ~has_encounter
        THEN [debug_reason |-> <<"Failed IP", age_pass, has_encounter>>] @@ empty_result
        ELSE
        LET f == cms165_flags(evs)
            reason == cms165_exclusion_reason(age, f)
        IN  IF ~f.has_htn
            THEN [debug_reason |-> <<"Failed IP: No valid hypertension diagnosis found">>]
                     @@ empty_result
            ELSE
            LET r1 == [empty_result EXCEPT !.initial_population = TRUE]
                r2 == IF reason # "None"
                      THEN [r1 EXCEPT !.exclusion = TRUE, !.exclusion_reason = reason]
                      ELSE r1
                r3 == set_denominator(r2)
            IN  IF r3.denominator THEN cms165_numerator(r3, evs) ELSE r3

(***************************************************************************)
(* evaluate_cms122 : Diabetes, HbA1c poor control (> 9%)                   *)
(***************************************************************************)
cms122_age_min == 18
cms122_age_max == 75
cms122_threshold == 90   \* 9.0, in tenths

cms122_age_ok(age) == cms122_age_min <= age /\ age <= cms122_age_max

\* The result dictionary of evaluate_cms122 has no exclusion keys (line 280).
cms122_empty_result ==
    [initial_population |-> FALSE, denominator |-> FALSE, numerator |-> FALSE,
     evidence |-> None]

cms122_has_diabetes(evs) ==
    \E i \in DOMAIN evs :
        /\ ~(parse_date(evs[i].event_date).year > index_date.year)
        /\ evs[i].code \in code_maps.CMS122.Diabetes

cms122_a1c_readings(evs) ==
    LET keep(ev) == /\ parse_date(ev.event_date).year = index_date.year
                    /\ ev.code \in code_maps.CMS122.HbA1cTest
    IN  SelectSeq(evs, keep)

\* latest['value_num'] truthy, float() succeeds, v > 9.0
cms122_poor(latest) ==
    /\ truthy(latest.value_num)
    /\ float_ok(latest.value_num)
    /\ FloatOf(latest.value_num) > cms122_threshold

cms122_numerator(r, evs) ==
    LET a1c_readings == cms122_a1c_readings(evs)
    IN  IF a1c_readings = <<>>
        THEN [r EXCEPT !.numerator = TRUE, !.evidence = None]
        ELSE
        LET latest == Head(sort_by_date_desc(a1c_readings))
        IN  [r EXCEPT !.numerator = cms122_poor(latest), !.evidence = latest]

evaluate_cms122(pat, encs, evs) ==
    IF pat = None THEN cms122_empty_result
    ELSE
    LET age == calculate_age(parse_date(pat.dob), index_date)
        r1 == [cms122_empty_result EXCEPT !.initial_population = cms122_age_ok(age)]
    IN  IF ~r1.initial_population \/ ~has_encounter_in_year(encs) THEN r1
        ELSE
        LET r2 == IF ~cms122_has_diabetes(evs)
                  THEN [r1 EXCEPT !.initial_population = FALSE]
                  ELSE r1
            r3 == IF r2.initial_population THEN [r2 EXCEPT !.denominator = TRUE] ELSE r2
        IN  IF r3.denominator THEN cms122_numerator(r3, evs) ELSE r3

(***************************************************************************)
(* The cohort data store: _ensure_loaded, preload_cohort,                  *)
(* load_patient_data.  A dict is a function whose DOMAIN is its keys; a    *)
(* CSV file is the sequence of its rows, and open() of a file that is not  *)
(* present raises.  An outcome is the caches as the call leaves them, the  *)
(* number of files it opened, and whether it raised.                       *)
(***************************************************************************)
dict_get(d, k, default) == IF k \in DOMAIN d THEN d[k] ELSE default

RowsOf(rows, id) ==
    LET Test(r) == r.patient_id = id
    IN  SelectSeq(rows, Test)

\* Mutant: the patient is looked up but not remembered.
remember_nothing(cohort, ids) == cohort

\* self._target_cohort.add(patient_id) / .update(missing)
remember(cohort, ids) == cohort \cup ids

\* for row in reader: if row id matches: cache[id] = row; break
first_patient_row(cache, rows, id) ==
    IF RowsOf(rows, id) = <<>> THEN cache
    ELSE [k \in DOMAIN cache \cup {id} |->
             IF k = id THEN RowsOf(rows, id)[1] ELSE cache[k]]

\* for row in reader: if row id in missing: cache[id] = row
last_patient_rows(cache, rows, ids) ==
    LET found == {id \in ids : RowsOf(rows, id) # <<>>}
    IN  [k \in DOMAIN cache \cup found |->
            IF k \in found THEN RowsOf(rows, k)[Len(RowsOf(rows, k))] ELSE cache[k]]

\* for row in reader: if row id in ids: cache.setdefault(id, []).append(row)
append_rows(cache, rows, ids) ==
    LET found == {id \in ids : RowsOf(rows, id) # <<>>}
    IN  [k \in DOMAIN cache \cup found |->
            IF k \in found THEN dict_get(cache, k, <<>>) \o RowsOf(rows, k)
            ELSE cache[k]]

Outcome(st, scans, raised) == [st |-> st, scans |-> scans, raised |-> raised]

\* The three file scans of either loader, in their order; patients is the
\* update of the patient cache that the loader makes.
scan_files(st, ids, patients) ==
    IF "patients.csv" \notin present THEN Outcome(st, 0, TRUE)
    ELSE LET s1 == [st EXCEPT !.cache_patients = patients]
         IN  IF "encounters.csv" \notin present THEN Outcome(s1, 1, TRUE)
             ELSE LET s2 == [s1 EXCEPT !.cache_encounters =
                                        append_rows(@, files.encounters, ids)]
                  IN  IF "events.csv" \notin present THEN Outcome(s2, 2, TRUE)
                      ELSE Outcome([s2 EXCEPT
                                      !.cache_events = append_rows(@, files.events, ids),
                                      !.target_cohort = remember(@, ids)],
                                   3, FALSE)

\* Mutant: only the patient cache is consulted, as in preload_cohort.
ensure_loaded_patients_only(st, patient_id) ==
    IF patient_id \in DOMAIN st.cache_patients
    THEN Outcome(st, 0, FALSE)
    ELSE scan_files(st, {patient_id},
                    first_patient_row(st.cache_patients, files.patients, patient_id))

ensure_loaded(st, patient_id) ==
    IF patient_id \in DOMAIN st.cache_patients \/ patient_id \in st.target_cohort
    THEN Outcome(st, 0, FALSE)
    ELSE scan_files(st, {patient_id},
                    first_patient_row(st.cache_patients, files.patients, patient_id))

preload_cohort(st, cohort_ids) ==
    LET missing == cohort_ids \ DOMAIN st.cache_patients
    IN  IF missing = {} THEN Outcome(st, 0, FALSE)
        ELSE scan_files(st, missing,
                        last_patient_rows(st.cache_patients, files.patients, missing))

\* The tuple load_patient_data returns once _ensure_loaded has returned.
load_patient_data(st, patient_id) ==
    <<dict_get(st.cache_patients, patient_id, None),
      dict_get(st.cache_encounters, patient_id, <<>>),
      dict_get(st.cache_events, patient_id, <<>>)>>

NoCall == [n |-> 0, op |-> "none", ids |-> {}, scans |-> 0, raised |-> FALSE, ret |-> None]

\* __init__: empty caches, no call made yet.
EmptyStore ==
    /\ cache_patients = <<>>
    /\ cache_encounters = <<>>
    /\ cache_events = <<>>
    /\ target_cohort = {}
    /\ last_call = NoCall
    /\ fetched = <<>>
    /\ handled = {}
    /\ preloaded = {}

\* An engine whose evaluators are called directly, as in the unit tests.
StoreUnused ==
    /\ files = [patients |-> <<>>, encounters |-> <<>>, events |-> <<>>]
    /\ present = {}
    /\ EmptyStore

\* No LLM runner has been constructed.
RunnerUnused ==
    /\ provider = "None"
    /\ runner_pc = "unused"
    /\ attempt = 0
    /\ api_calls = 0
    /\ last_error = ""
    /\ exhausted = FALSE
    /\ raw_response = None
    /\ record = None

(***************************************************************************)
(* Exceptions.  datetime.strptime raises ValueError on a string that is    *)
(* not a calendar date, and no evaluator catches it.  An evaluator parses  *)
(* the encounter dates inside any(), which stops at the first encounter of *)
(* the index year, and, once the patient has passed the age and encounter  *)
(* tests, the date of every event in its first loop over the events.       *)
(***************************************************************************)
ValueError == [exception |-> "ValueError"]

strptime_ok(d_str) ==
    /\ d_str[2] \in 1..12
    /\ d_str[3] \in 1..DaysInMonth(d_str[1], d_str[2])

encounter_scan_raises(encs) ==
    \E i \in DOMAIN encs :
        /\ ~strptime_ok(encs[i].encounter_date)
        /\ \A j \in 1..(i - 1) :
              strptime_ok(encs[j].encounter_date)
                  => parse_date(encs[j].encounter_date).year # index_date.year

event_scan_raises(evs) ==
    \E i \in DOMAIN evs : ~strptime_ok(evs[i].event_date)

age_ok(m, age) ==
    CASE m = "CMS125" -> cms125_age_ok(age)
      [] m = "CMS130" -> cms130_age_ok(age)
      [] m = "CMS165" -> cms165_age_ok(age)
      [] m = "CMS122" -> cms122_age_ok(age)

evaluator_raises(m, pat, encs, evs) ==
    /\ pat # None
    /\ m = "CMS125" => pat.sex = "F"
    /\ \/ ~strptime_ok(pat.dob)
       \/ encounter_scan_raises(encs)
       \/ /\ age_ok(m, calculate_age(parse_date(pat.dob), index_date))
          /\ has_encounter_in_year(encs)
          /\ event_scan_raises(evs)

(***************************************************************************)
(* The facade: evaluate_all and evaluate_patient, after load_patient_data. *)
(***************************************************************************)
\* evaluate_all once load_patient_data has returned (pat, encs, evs).
evaluate_all(pat, encs, evs) ==
    IF pat = None THEN [error |-> "Patient not found"]
    ELSE [m \in {"CMS125", "CMS130", "CMS165", "CMS122"} |->
            CASE m = "CMS125" -> evaluate_cms125(pat, encs, evs)
              [] m = "CMS130" -> evaluate_cms130(pat, encs, evs)
              [] m = "CMS165" -> evaluate_cms165(pat, encs, evs)
              [] m = "CMS122" -> evaluate_cms122(pat, encs, evs)]

\* One of the four evaluators called by evaluate_all raises.
evaluate_all_raises(pat, encs, evs) ==
    \E m \in {"CMS125", "CMS130", "CMS165", "CMS122"} :
        evaluator_raises(m, pat, encs, evs)

\* evaluate_patient once evaluate_all has returned res.
evaluate_patient(res, measure_id) ==
    IF "error" \in DOMAIN res \/ measure_id \notin DOMAIN res
    THEN <<FALSE, FALSE, None>>
    ELSE <<res[measure_id].denominator, res[measure_id].numerator,
           res[measure_id].evidence>>

(***************************************************************************)
(* The calls.  Init draws the engine's index date, the evaluator and its   *)
(* arguments; one action per evaluator applies it.                         *)
(***************************************************************************)
Measures == {"CMS125", "CMS130", "CMS165", "CMS122"}

\* GoldTruthEngine(index_date_str): the tests' date, the default, and a
\* measurement period that ends in mid-year (--index-date takes any date).
IndexDateStrs == {<<2024, 12, 31>>, <<2025, 12, 31>>, <<2024, 6, 30>>}

\* The date string of the day n days before (n < 0: after) date string s.
fromordinal(n) ==
    LET y == CHOOSE yy \in 1900..2100 :
                 DaysBeforeYear(yy) < n /\ n <= DaysBeforeYear(yy + 1)
        m == CHOOSE mm \in 1..12 :
                 /\ DaysBeforeYear(y) + DaysBeforeMonth(y, mm) < n
                 /\ n <= DaysBeforeYear(y) + DaysBeforeMonth(y, mm) + DaysInMonth(y, mm)
    IN  <<y, m, n - DaysBeforeYear(y) - DaysBeforeMonth(y, m)>>

DaysBefore(s, n) == fromordinal(toordinal(parse_date(s)) - n)

YearsBefore(s, n) == <<s[1] - n, s[2], s[3]>>

Event(code, d, v) == [code |-> code, event_date |-> d, value_num |-> v]

AgeBand(m) ==
    CASE m = "CMS125" -> <<cms125_age_min, cms125_age_max>>
      [] m = "CMS130" -> <<cms130_age_min, cms130_age_max>>
      [] m = "CMS165" -> <<cms165_age_min, cms165_age_max>>
      [] m = "CMS122" -> <<cms122_age_min, cms122_age_max>>

\* Dates of birth at both ends of the evaluator's age band, to the day, the
\* tests' patients, and the tests' lower bound of 40 for CMS125.
Dobs(idx, m) ==
    LET lo == AgeBand(m)[1]
        hi == AgeBand(m)[2]
    IN  {YearsBefore(idx, lo), DaysBefore(YearsBefore(idx, lo), -1),
         YearsBefore(idx, hi + 1), DaysBefore(YearsBefore(idx, hi + 1), -1),
         <<1970, 1, 1>>}
        \cup (IF m = "CMS125" THEN {<<idx[1] - 40, 6, 15>>} ELSE {})

Patients(idx, m) ==
    {None, [sex |-> "M", dob |-> <<1970, 1, 1>>]}
        \cup {[sex |-> "F", dob |-> d] : d \in Dobs(idx, m)}

EncounterLists(idx) ==
    LET in_year == [encounter_date |-> <<idx[1], 5, 10>>]
        before == [encounter_date |-> <<idx[1] - 1, 5, 10>>]
    IN  {<<>>, <<in_year>>, <<before>>, <<before, in_year>>}

\* The rows the evaluator of measure m can tell apart, around each window.
EventUniverse(idx, m) ==
    LET Y == idx[1]
        old == <<Y - 4, 1, 1>>
        next == <<Y + 1, 1, 1>>
    IN  CASE m = "CMS125" ->
              {Event("77067", DaysBefore(idx, n), "") : n \in {822, 821, -1}}
                \cup {Event("77067", <<Y - 1, 12, 1>>, "")}
                \cup {Event("Z90.13", d, "") : d \in {old, next}}
                \cup {Event(c, <<Y - 6, 5, 10>>, "") : c \in {"Z90.11", "0HTT0ZZ"}}
                \cup {Event(c, <<Y - 3, 8, 15>>, "") : c \in {"Z90.12", "0HTU0ZZ"}}
                \cup {Event("Z90.12", next, ""), Event("OTHER", old, "")}
          [] m = "CMS130" ->
              {Event("45378", DaysBefore(idx, n), "") : n \in {3651, 3650, -1}}
                \cup {Event("82274", DaysBefore(idx, n), "") : n \in {366, 365, 0}}
                \cup {Event("C18.9", d, "") : d \in {old, next}}
                \cup {Event("44150", old, ""), Event("OTHER", old, "")}
          [] m = "CMS165" ->
              {Event("8480-6", DaysBefore(idx, 60), v) : v \in {"135", "145"}}
                \cup {Event("8462-4", DaysBefore(idx, 60), v) : v \in {"85", "95"}}
                \cup {Event("8480-6", DaysBefore(idx, -1), "135"),
                      Event("8462-4", DaysBefore(idx, -1), "85"),
                      Event("I10", <<Y, 7, 1>>, ""),
                      Event("N18.6", old, "")}
          [] m = "CMS122" ->
              {Event("4548-4", DaysBefore(idx, 60), v) : v \in {"10.5", "9.0", ""}}
                \cup {Event("4548-4", DaysBefore(idx, 90), "7.5"),
                      Event("4548-4", <<Y - 1, 6, 1>>, "10.5"),
                      Event("4548-4", DaysBefore(idx, 30), "abc"),
                      Event("E11.9", next, "")}

\* The diagnosis that opens the history of a CMS165 / CMS122 patient.
Histories(idx, m) ==
    CASE m = "CMS165" -> {<<>>, <<Event("I10", <<idx[1] - 4, 1, 1>>, "")>>}
      [] m = "CMS122" -> {<<>>, <<Event("E11.9", <<idx[1] - 4, 1, 1>>, "")>>}
      [] OTHER -> {<<>>}

SeqsUpTo(S, n) == UNION {[1..k -> S] : k \in 0..n}

EventLists(idx, m) ==
    {h \o t : h \in Histories(idx, m), t \in SeqsUpTo(EventUniverse(idx, m), MaxEvents)}

Init ==
    /\ measure \in Measures
    /\ \E s \in IndexDateStrs :
        /\ index_date = parse_date(s)
        /\ patient \in Patients(s, measure)
        /\ encounters \in EncounterLists(s)
        /\ events \in EventLists(s, measure)
    /\ result = None
    /\ pc = "ready"
    /\ StoreUnused
    /\ RunnerUnused

Call(m, r) ==
    /\ pc = "ready"
    /\ measure = m
    /\ result' = IF evaluator_raises(m, patient, encounters, events)
                 THEN ValueError ELSE r
    /\ pc' = "done"
    /\ UNCHANGED <<index_date, measure, patient, encounters, events>>
    /\ UNCHANGED store_vars
    /\ UNCHANGED llm_vars

Eval_cms125 == Call("CMS125", evaluate_cms125(patient, encounters, events))

Eval_cms130 == Call("CMS130", evaluate_cms130(patient, encounters, events))

Eval_cms165 == Call("CMS165", evaluate_cms165(patient, encounters, events))

Eval_cms122 == Call("CMS122", evaluate_cms122(patient, encounters, events))

Next == Eval_cms125 \/ Eval_cms130 \/ Eval_cms165 \/ Eval_cms122

Spec == Init /\ [][Next]_vars

(***************************************************************************)
(* Properties of the returned results                                      *)
(***************************************************************************)
Returned == pc = "done"

\* result.get(k) is True
Flag(r, k) == k \in DOMAIN r /\ r[k]

EvidenceDate == parse_date(result.evidence.event_date)

\* The patient's age at the index date.
AgeOf(pat) == calculate_age(parse_date(pat.dob), index_date)

\* C1: whatever the evaluator and its input, a returned result with
\* exclusion true has denominator false, and one with denominator false has
\* numerator false.
C1_ExclusionDenominatorNumerator ==
    Returned =>
        /\ Flag(result, "exclusion") => ~result.denominator
        /\ ~result.denominator => ~result.numerator

\* C1 witness: an excluded CMS125 patient who has an earlier mammogram.
C1_Witness ==
    /\ Returned
    /\ measure = "CMS125"
    /\ result.initial_population /\ result.exclusion
    /\ ~result.denominator /\ ~result.numerator
    /\ \E i \in DOMAIN events :
        events[i].code = "77067" /\ parse_date(events[i].event_date).year < index_date.year

\* C2: every returned result has denominator = (initial_population and not
\* exclusion); no result has initial_population true, exclusion false and
\* denominator false.
C2_DenominatorIsPopulationNotExcluded ==
    Returned =>
        result.denominator = (result.initial_population /\ ~Flag(result, "exclusion"))

\* C3: a returned result with denominator true and an evidence event has the
\* evidence dated on or before the index date and no earlier than the
\* measure's window allows: 821 days (CMS125), 3650 days for a colonoscopy
\* and 365 for a FIT (CMS130), the index date's year (CMS165, CMS122).
C3_EvidenceInWindow ==
    (Returned /\ result.denominator /\ result.evidence # None) =>
        LET days_diff == days_between(index_date, EvidenceDate)
            code == result.evidence.code
        IN  /\ 0 <= days_diff
            /\ measure = "CMS125" => days_diff <= 821
            /\ (measure = "CMS130" /\ code \in code_maps.CMS130.Colonoscopy)
                   => days_diff <= 3650
            /\ (measure = "CMS130" /\ code \in code_maps.CMS130.FIT) => days_diff <= 365
            /\ measure \in {"CMS165", "CMS122"} => EvidenceDate.year = index_date.year

\* The mammography rows of the call's events.
Mammograms == {i \in DOMAIN events : events[i].code \in code_maps.CMS125.Mammography}

DaysBack(i) == days_between(index_date, parse_date(events[i].event_date))

C5_Cms125EligibilityOfTests ==
    (Returned /\ measure = "CMS125" /\ patient # None) =>
        /\ (patient.sex = "F" /\ 40 <= AgeOf(patient) /\ AgeOf(patient) <= 74
                /\ has_encounter_in_year(encounters))
               => /\ result.initial_population
                  /\ events = <<>> => result.denominator
        /\ (patient.sex = "M" \/ AgeOf(patient) = 39) => ~result.initial_population

\* Dates as the integer YYYYMMDD: whole years elapsed is the quotient of the
\* difference by 10000.
YMD(dt) == dt.year * 10000 + dt.month * 100 + dt.day

IndexDateStr == <<index_date.year, index_date.month, index_date.day>>

\* C6: calculate_age is the difference of the years, less one exactly when
\* the index date's (month, day) precedes the birthday's; a woman with an
\* encounter in the index year who turns the evaluator's lower age bound on
\* the index date is in the CMS125 initial population, and one born a day
\* later is not.
C6_AgeBoundary ==
    (Returned /\ patient # None) =>
        LET dob == parse_date(patient.dob)
            before_birthday ==
                index_date.month * 100 + index_date.day < dob.month * 100 + dob.day
            turns_bound == YearsBefore(IndexDateStr, cms125_age_min)
        IN  /\ AgeOf(patient) = (YMD(index_date) - YMD(dob)) \div 10000
            /\ AgeOf(patient) =
                   index_date.year - dob.year - (IF before_birthday THEN 1 ELSE 0)
            /\ (measure = "CMS125" /\ patient.sex = "F"
                    /\ has_encounter_in_year(encounters)) =>
                /\ patient.dob = turns_bound => result.initial_population
                /\ patient.dob = DaysBefore(turns_bound, -1)
                       => ~result.initial_population

\* C6 witness: a woman who turns the lower age bound on a mid-year index
\* date, with an encounter that year, is in the initial population.
C6_Witness ==
    /\ Returned /\ measure = "CMS125" /\ patient # None
    /\ patient.sex = "F"
    /\ patient.dob = YearsBefore(IndexDateStr, cms125_age_min)
    /\ index_date.month = 6
    /\ has_encounter_in_year(encounters)
    /\ result.initial_population

\* C7: whatever the evaluator, initial_population is true only if some
\* encounter is dated in the index date's year.
C7_PopulationNeedsEncounter ==
    (Returned /\ result.initial_population) =>
        \E i \in DOMAIN encounters : encounters[i].encounter_date[1] = index_date.year

\* The rows that qualify for the screening numerator of the call's measure:
\* of the screening's code, dated on or before the index date and within
\* the screening's window.
Qualifying ==
    {i \in DOMAIN events :
        /\ 0 <= DaysBack(i)
        /\ \/ /\ measure = "CMS125"
              /\ events[i].code \in code_maps.CMS125.Mammography
              /\ DaysBack(i) <= 821
           \/ /\ measure = "CMS130"
              /\ events[i].code \in code_maps.CMS130.Colonoscopy
              /\ DaysBack(i) <= 3650
           \/ /\ measure = "CMS130"
              /\ events[i].code \in code_maps.CMS130.FIT
              /\ DaysBack(i) <= 365}

\* C8: for a denominator patient of a screening measure (CMS125, CMS130),
\* numerator is true iff some qualifying row is in its window, evidence is
\* present iff numerator is true, and the evidence is a qualifying row in
\* its window whose date no other such row exceeds; the end-to-end scenario
\* (born 1970-01-01, F, encounter 2024-05-10, mammogram 2023-12-01, index
\* date 2024-12-31) returns numerator true with evidence dated 2023-12-01.
C8_ScreeningNumerator ==
    /\ (Returned /\ measure \in {"CMS125", "CMS130"} /\ result.denominator) =>
        /\ result.numerator = (Qualifying # {})
        /\ (result.evidence # None) = result.numerator
        /\ result.numerator =>
            /\ \E i \in Qualifying : result.evidence = events[i]
            /\ \A i \in Qualifying : DaysBack(i) >= days_between(index_date, EvidenceDate)
    /\ (/\ Returned /\ measure = "CMS125"
        /\ index_date = date(2024, 12, 31)
        /\ patient = [sex |-> "F", dob |-> <<1970, 1, 1>>]
        /\ encounters = <<[encounter_date |-> <<2024, 5, 10>>]>>
        /\ events = <<Event("77067", <<2023, 12, 1>>, "")>>) =>
        /\ result.initial_population /\ result.denominator /\ result.numerator
        /\ result.evidence.event_date = <<2023, 12, 1>>

\* C8 witness: two qualifying rows of different dates, the older one first
\* in the list, and the evidence is the later one.
C8_Witness ==
    /\ Returned /\ measure = "CMS130" /\ result.denominator /\ result.numerator
    /\ Cardinality(Qualifying) = 2
    /\ 1 \in Qualifying
    /\ \E i \in Qualifying : DaysBack(i) < DaysBack(1) /\ result.evidence = events[i]

\* Rows dated in the index year or earlier carrying one of the codes.
Recorded(codes) ==
    {i \in DOMAIN events : events[i].event_date[1] <= index_date.year
                            /\ events[i].code \in codes}

\* C9: a CMS125 patient who passes the population gate (in the initial
\* population, with an encounter in the index year) is excluded, and out of
\* the denominator, iff among the rows dated in the index year or earlier
\* there is a bilateral mastectomy, or a left-side code and a right-side
\* code, whatever their dates; otherwise she is in the denominator.
C9_CombinedMastectomyExclusion ==
    (Returned /\ measure = "CMS125" /\ result.initial_population
        /\ has_encounter_in_year(encounters)) =>
        LET bilateral == Recorded({"Z90.13"})
            left == Recorded({"Z90.12", "0HTU0ZZ"})
            right == Recorded({"Z90.11", "0HTT0ZZ"})
        IN  /\ result.exclusion = (bilateral # {} \/ (left # {} /\ right # {}))
            /\ result.denominator = ~result.exclusion

\* C9 witness: a left-side and a right-side row of different dates and no
\* bilateral code: the patient is excluded.
C9_Witness ==
    /\ Returned /\ measure = "CMS125"
    /\ Recorded({"Z90.13"}) = {}
    /\ \E i \in Recorded({"Z90.12", "0HTU0ZZ"}), j \in Recorded({"Z90.11", "0HTT0ZZ"}) :
        events[i].event_date # events[j].event_date
    /\ result.exclusion /\ ~result.denominator

\* The HbA1c rows dated in the index date's year.
A1cInYear ==
    {i \in DOMAIN events : events[i].code \in code_maps.CMS122.HbA1cTest
                            /\ events[i].event_date[1] = index_date.year}

\* C10: for a CMS122 denominator patient, numerator is true when no HbA1c
\* row is dated in the measurement year; otherwise the evidence is an HbA1c
\* row of that year that no other exceeds in date, and numerator is true
\* iff its value is above 9.0.  A patient with no diabetes row is not in
\* the initial population.
C10_PoorControlNumerator ==
    (Returned /\ measure = "CMS122") =>
        /\ result.denominator =>
            IF A1cInYear = {} THEN result.numerator
            ELSE /\ \E i \in A1cInYear :
                        /\ result.evidence = events[i]
                        /\ \A j \in A1cInYear : DaysBack(j) >= DaysBack(i)
                 /\ result.numerator =
                        (/\ result.evidence.value_num \in DOMAIN FloatTable
                         /\ FloatTable[result.evidence.value_num] > 90)
        /\ (\A i \in DOMAIN events : events[i].code # "E11.9")
               => ~result.initial_population

(***************************************************************************)
(* CMS165 on blood-pressure readings: a diagnosed patient of the age band  *)
(* with an encounter in the index year, and up to MaxReadings rows of      *)
(* systolic / diastolic readings on two days of the index year and one of  *)
(* the year before, some with an empty or a non-numeric value.             *)
(***************************************************************************)
MaxReadings == 4

ReadingUniverse(idx) ==
    LET day_a == DaysBefore(idx, 60)
        day_b == DaysBefore(idx, 90)
    IN  {Event("8480-6", d, v) : d \in {day_a, day_b}, v \in {"135", "145"}}
          \cup {Event("8462-4", d, v) : d \in {day_a, day_b}, v \in {"85", "95"}}
          \cup {Event("8480-6", day_a, "abc"), Event("8462-4", day_a, ""),
                Event("8480-6", <<idx[1] - 1, 11, 1>>, "135")}

InitBP ==
    /\ measure = "CMS165"
    /\ \E s \in {<<2024, 12, 31>>, <<2025, 12, 31>>} :
        /\ index_date = parse_date(s)
        /\ patient = [sex |-> "M", dob |-> <<1960, 1, 1>>]
        /\ encounters = <<[encounter_date |-> <<s[1], 5, 10>>]>>
        /\ events \in {<<Event("I10", <<2020, 1, 1>>, "")>> \o t :
                          t \in SeqsUpTo(ReadingUniverse(s), MaxReadings)}
    /\ result = None
    /\ pc = "ready"
    /\ StoreUnused
    /\ RunnerUnused

NextBP == Eval_cms165

SpecBP == InitBP /\ [][NextBP]_vars

\* Rows of the index year that carry a readable number, by kind.
NumericRows(codes) ==
    {i \in DOMAIN events :
        /\ events[i].code \in codes
        /\ events[i].event_date[1] = index_date.year
        /\ events[i].value_num \in DOMAIN FloatTable}

SysRows == NumericRows({"8480-6"})

DiaRows == NumericRows({"8462-4"})

\* Days with both a systolic and a diastolic number.
PairedDays ==
    {events[i].event_date : i \in
        {k \in SysRows : \E j \in DiaRows : events[j].event_date = events[k].event_date}}

LastPairedDay ==
    CHOOSE d \in PairedDays :
        \A e \in PairedDays : toordinal(parse_date(e)) <= toordinal(parse_date(d))

ValuesOn(rows, d) == {FloatTable[events[i].value_num] : i \in {k \in rows : events[k].event_date = d}}

Lowest(S) == CHOOSE v \in S : \A w \in S : v <= w

\* C11: for a CMS165 denominator patient, only days of the measurement year
\* with both a systolic and a diastolic number count; with no such day the
\* numerator is false and the evidence null; otherwise, on the latest such
\* day, numerator is true iff the lowest systolic is below 140 and the
\* lowest diastolic below 90, each taken on its own, and the evidence is a
\* systolic row of that day with the lowest systolic value.
C11_PairedVitalsNumerator ==
    (Returned /\ measure = "CMS165" /\ result.denominator) =>
        IF PairedDays = {}
        THEN ~result.numerator /\ result.evidence = None
        ELSE LET low_sys == Lowest(ValuesOn(SysRows, LastPairedDay))
                 low_dia == Lowest(ValuesOn(DiaRows, LastPairedDay))
             IN  /\ result.numerator = (low_sys < 1400 /\ low_dia < 900)
                 /\ \E i \in SysRows :
                        /\ result.evidence = events[i]
                        /\ events[i].event_date = LastPairedDay
                        /\ FloatTable[events[i].value_num] = low_sys

\* C11 witness: on the latest paired day the first systolic and the first
\* diastolic row are both too high, the lowest of each is not, and the
\* numerator is met.
C11_Witness ==
    /\ Returned /\ measure = "CMS165" /\ result.denominator /\ result.numerator
    /\ PairedDays # {}
    /\ \E i \in SysRows, j \in DiaRows :
        /\ events[i].event_date = LastPairedDay /\ events[i].value_num = "145"
        /\ events[j].event_date = LastPairedDay /\ events[j].value_num = "95"
        /\ \A k \in SysRows : events[k].event_date = LastPairedDay => i <= k
        /\ \A k \in DiaRows : events[k].event_date = LastPairedDay => j <= k

(***************************************************************************)
(* CMS165 on diagnoses: patients on both sides of ages 66 and 81, a        *)
(* hypertension diagnosis on either side of the mid-year cutoff, and up to *)
(* MaxFlags rows of the exclusion categories inside and outside the years  *)
(* in which the engine counts them.                                        *)
(***************************************************************************)
MaxFlags == 3

HtnHistories(idx) ==
    LET jun30 == Event("I10", <<idx[1], 6, 30>>, "")
        jul1 == Event("I10", <<idx[1], 7, 1>>, "")
    IN  {<<>>, <<jun30>>, <<jul1>>, <<jul1, jun30>>}

FlagUniverse(idx) ==
    LET Y == idx[1]
    IN  {Event("Z51.5H", <<Y, 3, 1>>, ""), Event("Z51.5", <<Y, 3, 1>>, ""),
         Event("Z51.5H", <<Y - 1, 3, 1>>, ""),
         Event("N18.6", <<Y - 4, 1, 1>>, ""),
         Event("Z33.1", <<Y, 2, 1>>, ""),
         Event("99304", <<Y - 4, 1, 1>>, ""),
         Event("R54", <<Y, 4, 1>>, ""),
         Event("F03.90", <<Y - 1, 4, 1>>, ""), Event("F03.90", <<Y - 2, 4, 1>>, ""),
         Event("997223", <<Y, 4, 1>>, "")}

FlagPatients(idx) ==
    {[sex |-> "F", dob |-> d] :
        d \in {YearsBefore(idx, 66), DaysBefore(YearsBefore(idx, 66), -1),
               YearsBefore(idx, 81), DaysBefore(YearsBefore(idx, 81), -1)}}

InitFlags ==
    /\ measure = "CMS165"
    /\ \E s \in {<<2024, 12, 31>>, <<2025, 12, 31>>} :
        /\ index_date = parse_date(s)
        /\ patient \in FlagPatients(s)
        /\ encounters = <<[encounter_date |-> <<s[1], 5, 10>>]>>
        /\ events \in {h \o t : h \in HtnHistories(s),
                                t \in SeqsUpTo(FlagUniverse(s), MaxFlags)}
    /\ result = None
    /\ pc = "ready"
    /\ StoreUnused
    /\ RunnerUnused

NextFlags == Eval_cms165

SpecFlags == InitFlags /\ [][NextFlags]_vars

EncounterInYear ==
    \E i \in DOMAIN encounters : encounters[i].encounter_date[1] = index_date.year

\* A hypertension diagnosis on or before June 30 of the index year.
EarlyHypertension ==
    \E i \in DOMAIN events :
        /\ events[i].code = "I10"
        /\ \/ events[i].event_date[1] < index_date.year
           \/ events[i].event_date[1] = index_date.year /\ events[i].event_date[2] <= 6

\* C12: a CMS165 patient of the age band with an encounter in the index
\* year is in the initial population iff a hypertension diagnosis is dated
\* on or before June 30 of the index year; with none, initial population,
\* denominator and numerator are all false.
C12_DiagnosisGate ==
    (Returned /\ measure = "CMS165" /\ patient # None
        /\ AgeOf(patient) >= 18 /\ AgeOf(patient) <= 85 /\ EncounterInYear) =>
        /\ result.initial_population = EarlyHypertension
        /\ ~EarlyHypertension =>
              (~result.initial_population /\ ~result.denominator /\ ~result.numerator)

\* C12 witness: the only hypertension diagnosis is dated July 1 of the
\* index year, and the evaluator has returned.
C12_Witness ==
    /\ Returned /\ measure = "CMS165" /\ EncounterInYear
    /\ ~EarlyHypertension
    /\ \E i \in DOMAIN events :
        events[i].code = "I10" /\ events[i].event_date = <<index_date.year, 7, 1>>
    /\ ~result.initial_population

\* Rows of the given codes whose year lies in lo..hi.
RecordedIn(codes, lo, hi) ==
    \E i \in DOMAIN events :
        /\ events[i].code \in codes
        /\ lo <= events[i].event_date[1] /\ events[i].event_date[1] <= hi

Frail == RecordedIn({"R54"}, index_date.year, index_date.year)

\* The exclusion categories in their order of precedence, each with its
\* reason and whether it applies to the patient.
ExclusionCategories ==
    LET Y == index_date.year
        age == AgeOf(patient)
    IN  << <<"Hospice or Palliative Care", RecordedIn({"Z51.5H", "Z51.5"}, Y, Y)>>,
           <<"ESRD Diagnosis", RecordedIn({"N18.6"}, 0, Y)>>,
           <<"Pregnancy", RecordedIn({"Z33.1"}, Y, Y)>>,
           <<"Age >= 66 in LTC", age >= 66 /\ RecordedIn({"99304"}, 0, Y)>>,
           <<"Age 66-80 with Frailty and Advanced Illness",
             age >= 66 /\ age <= 80 /\ Frail
                /\ RecordedIn({"F03.90", "997223"}, Y - 1, Y)>>,
           <<"Age >= 81 with Frailty", age >= 81 /\ Frail>> >>

Applicable == {k \in DOMAIN ExclusionCategories : ExclusionCategories[k][2]}

\* C13: for a CMS165 initial-population patient the exclusion reason is the
\* one of the first applicable category in the order hospice / palliative
\* care, ESRD, pregnancy, LTC from age 66, frailty with advanced illness at
\* ages 66-80, frailty from age 81; the patient is excluded iff a category
\* applies, and a patient younger than 66 is never excluded for LTC or
\* frailty.
C13_ExclusionPrecedence ==
    (Returned /\ measure = "CMS165" /\ Flag(result, "initial_population")) =>
        /\ result.exclusion = (Applicable # {})
        /\ Applicable # {} =>
              \E k \in Applicable :
                  /\ \A j \in Applicable : k <= j
                  /\ result.exclusion_reason = ExclusionCategories[k][1]
        /\ AgeOf(patient) < 66 =>
              result.exclusion_reason \notin
                  {ExclusionCategories[k][1] : k \in 4..6}

\* C13 witness: ESRD, pregnancy and LTC all apply to a patient of 66 or
\* more, hospice does not, and the reason returned is the ESRD one.
C13_Witness ==
    /\ Returned /\ measure = "CMS165" /\ Flag(result, "initial_population")
    /\ Cardinality(Applicable) >= 3
    /\ result.exclusion_reason = "ESRD Diagnosis"

(***************************************************************************)
(* The cohort data store under calls of preload_cohort and                 *)
(* load_patient_data.  Init draws the three CSV files and which of them    *)
(* are present; "ghost" is an id with no row in patients.csv.  fetched     *)
(* keeps the first tuple load_patient_data returned for an id, handled the *)
(* ids of the calls that returned, preloaded those of the preload_cohort   *)
(* calls that returned.                                                    *)
(***************************************************************************)
Ids == {"p1", "p2", "ghost"}

AllFiles == {"patients.csv", "encounters.csv", "events.csv"}

PatientRow(id) == [patient_id |-> id, sex |-> "F", dob |-> <<1970, 1, 1>>]

EncounterRow(id) == [patient_id |-> id, encounter_date |-> <<2025, 5, 10>>]

EventRow(id, d) ==
    [patient_id |-> id, code |-> "77067", event_date |-> d, value_num |-> ""]

PatientFiles == {<<PatientRow("p1"), PatientRow("p2")>>}

EncounterFiles ==
    {<<EncounterRow("p1")>>, <<EncounterRow("p1"), EncounterRow("ghost")>>}

EventFiles ==
    LET early == <<2024, 3, 1>>
        late == <<2025, 3, 1>>
    IN  {<<EventRow("p1", early), EventRow("p2", early), EventRow("p1", late)>>,
         <<EventRow("p1", late), EventRow("p2", early), EventRow("p1", early)>>,
         <<EventRow("p1", early), EventRow("ghost", early)>>}

InitStore ==
    /\ index_date = parse_date(<<2025, 12, 31>>)
    /\ measure = "CMS125"
    /\ patient = None
    /\ encounters = <<>>
    /\ events = <<>>
    /\ result = None
    /\ pc = "store"
    /\ files \in [patients : PatientFiles, encounters : EncounterFiles,
                  events : EventFiles]
    /\ present \in {AllFiles} \cup {AllFiles \ {f} : f \in AllFiles}
    /\ EmptyStore
    /\ RunnerUnused

Store ==
    [cache_patients |-> cache_patients, cache_encounters |-> cache_encounters,
     cache_events |-> cache_events, target_cohort |-> target_cohort]

\* The call leaves the caches as in outcome o and is recorded.
Finish(o, op, ids, ret) ==
    /\ cache_patients' = o.st.cache_patients
    /\ cache_encounters' = o.st.cache_encounters
    /\ cache_events' = o.st.cache_events
    /\ target_cohort' = o.st.target_cohort
    /\ last_call' = [n |-> last_call.n + 1, op |-> op, ids |-> ids,
                     scans |-> o.scans, raised |-> o.raised, ret |-> ret]
    /\ handled' = IF o.raised THEN handled ELSE handled \cup ids
    /\ preloaded' = IF op = "preload" /\ ~o.raised THEN preloaded \cup ids
                    ELSE preloaded
    /\ UNCHANGED <<files, present, eval_vars>>
    /\ UNCHANGED llm_vars

Preload(cohort_ids) ==
    /\ pc = "store"
    /\ last_call.n < MaxCalls
    /\ Finish(preload_cohort(Store, cohort_ids), "preload", cohort_ids, None)
    /\ fetched' = fetched

Get(patient_id) ==
    /\ pc = "store"
    /\ last_call.n < MaxCalls
    /\ LET o == ensure_loaded(Store, patient_id)
           ret == IF o.raised THEN None ELSE load_patient_data(o.st, patient_id)
       IN  /\ Finish(o, "get", {patient_id}, ret)
           /\ fetched' = IF o.raised \/ patient_id \in DOMAIN fetched THEN fetched
                         ELSE [k \in DOMAIN fetched \cup {patient_id} |->
                                  IF k = patient_id THEN ret ELSE fetched[k]]

NextStore ==
    \/ \E cohort_ids \in SUBSET Ids : Preload(cohort_ids)
    \/ \E patient_id \in Ids : Get(patient_id)

SpecStore == InitStore /\ [][NextStore]_vars

Caches == <<cache_patients, cache_encounters, cache_events>>

\* C14: a preload_cohort call whose ids were all handled by an earlier
\* preload or get that returned (in particular a second call with the same
\* cohort) opens no file and leaves the three caches as they were.
C14_PreloadIdempotent ==
    [][(last_call'.n = last_call.n + 1 /\ last_call'.op = "preload"
            /\ last_call'.ids \subseteq handled)
          => (last_call'.scans = 0 /\ Caches' = Caches)]_vars

\* Ids with a row in patients.csv.
Known == {files.patients[i].patient_id : i \in DOMAIN files.patients}

\* The step is a call of load_patient_data(id).
GetStep(id) ==
    /\ last_call'.n = last_call.n + 1
    /\ last_call'.op = "get"
    /\ last_call'.ids = {id}

\* C15: with the three files present, load_patient_data of an id without a
\* row in patients.csv does not raise and returns a null patient with the
\* encounter and event rows of that id; the id is remembered, and a later
\* load_patient_data of it opens no file.
C15_UnknownPatientIsNull ==
    [][\A id \in Ids \ Known :
          (GetStep(id) /\ present = AllFiles) =>
              /\ ~last_call'.raised
              /\ last_call'.ret[1] = None
              /\ \A k \in 2..3 : \A i \in DOMAIN last_call'.ret[k] :
                     last_call'.ret[k][i].patient_id = id
              /\ id \in target_cohort'
              /\ id \in DOMAIN fetched => last_call'.scans = 0]_vars

\* C15 witness: a second load_patient_data("ghost") has returned a null
\* patient and the orphan event row without opening a file.
C15_Witness ==
    /\ last_call.op = "get" /\ last_call.ids = {"ghost"}
    /\ last_call.n >= 2 /\ last_call.scans = 0 /\ ~last_call.raised
    /\ "ghost" \notin Known
    /\ last_call.ret[1] = None
    /\ last_call.ret[3] # <<>>
    /\ fetched["ghost"] = last_call.ret

\* C16: the patient cache holds one record per patient_id, the record of
\* that patient; and once load_patient_data has returned for an id, a
\* repeated call returns the same tuple and opens no file.
C16_OneRecordAndStableGet ==
    [][/\ \A k \in DOMAIN cache_patients' : cache_patients'[k].patient_id = k
       /\ \A id \in DOMAIN fetched :
             (GetStep(id) /\ ~last_call'.raised) =>
                 (last_call'.ret = fetched[id] /\ last_call'.scans = 0)]_vars

\* C17: every cached event list is in ascending order of event_date, as
\* soon as it is loaded and whatever the row order of events.csv.
C17_CachedEventsAscending ==
    \A id \in DOMAIN cache_events :
        \A i, j \in DOMAIN cache_events[id] :
            i < j => toordinal(parse_date(cache_events[id][i].event_date))
                        <= toordinal(parse_date(cache_events[id][j].event_date))

\* The step is a call that raised.
RaisedStep == last_call'.n = last_call.n + 1 /\ last_call'.raised

\* The step is a call that has to read the files: a preload_cohort of an id
\* outside the patient cache, or a load_patient_data of an id neither in the
\* patient cache nor remembered.
LoadingStep ==
    /\ last_call'.n = last_call.n + 1
    /\ \/ last_call'.op = "preload" /\ last_call'.ids \ DOMAIN cache_patients # {}
       \/ /\ last_call'.op = "get"
          /\ last_call'.ids \cap (DOMAIN cache_patients \cup target_cohort) = {}

\* C18: when one of the three files is missing, a call that has to read the
\* files raises, a call that raises leaves the four caches as they were,
\* and no load_patient_data returns data afterwards.
C18_MissingFileNoPartialResults ==
    [][/\ (LoadingStep /\ present # AllFiles) => last_call'.raised
       /\ RaisedStep => (Caches' = Caches /\ target_cohort' = target_cohort)
       /\ (present # AllFiles /\ last_call'.n = last_call.n + 1
              /\ last_call'.op = "get") => last_call'.raised]_vars

(***************************************************************************)
(* The evaluators on malformed rows: encounters and events whose date is   *)
(* not a calendar date (February 30), and readings whose value is empty or *)
(* not a number.                                                           *)
(***************************************************************************)
MaxRows == 3

BadDate(Y) == <<Y, 2, 30>>

RowUniverse(idx, m) ==
    LET Y == idx[1]
        bad == BadDate(Y)
    IN  CASE m = "CMS125" ->
              {Event("77067", <<Y, 3, 1>>, ""), Event("77067", bad, ""),
               Event("Z90.13", <<Y - 4, 1, 1>>, ""), Event("OTHER", bad, "")}
          [] m = "CMS130" ->
              {Event("45378", <<Y - 2, 3, 1>>, ""), Event("82274", bad, ""),
               Event("C18.9", <<Y - 4, 1, 1>>, ""), Event("OTHER", bad, "")}
          [] m = "CMS165" ->
              {Event("8480-6", <<Y, 3, 1>>, "135"), Event("8462-4", <<Y, 3, 1>>, "85"),
               Event("8480-6", <<Y, 3, 1>>, "abc"), Event("8462-4", <<Y, 3, 1>>, ""),
               Event("8480-6", <<Y, 9, 1>>, "145"), Event("8462-4", <<Y, 9, 1>>, "abc"),
               Event("8480-6", bad, "135")}
          [] m = "CMS122" ->
              {Event("4548-4", <<Y, 3, 1>>, "7.5"), Event("4548-4", <<Y, 6, 1>>, "10.5"),
               Event("4548-4", <<Y, 9, 1>>, "abc"), Event("4548-4", <<Y, 9, 1>>, ""),
               Event("4548-4", bad, "10.5")}

\* The diagnosis that CMS165 / CMS122 need, so that the readings are reached.
RowHistories(idx, m) ==
    IF m \in {"CMS165", "CMS122"} THEN Histories(idx, m) \ {<<>>} ELSE {<<>>}

RowEncounters(idx) ==
    SeqsUpTo({[encounter_date |-> <<idx[1], 5, 10>>],
              [encounter_date |-> BadDate(idx[1])]}, 2)

InitRows ==
    /\ measure \in Measures
    /\ \E s \in {<<2024, 12, 31>>} :
        /\ index_date = parse_date(s)
        /\ patient \in {[sex |-> "F", dob |-> <<1970, 1, 1>>],
                        [sex |-> "F", dob |-> <<2010, 1, 1>>]}
        /\ encounters \in RowEncounters(s)
        /\ events \in {h \o t : h \in RowHistories(s, measure),
                                t \in SeqsUpTo(RowUniverse(s, measure), MaxRows)}
    /\ result = None
    /\ pc = "ready"
    /\ StoreUnused
    /\ RunnerUnused

SpecRows == InitRows /\ [][Next]_vars

GoodEncounter(e) == strptime_ok(e.encounter_date)

GoodEvent(ev) == strptime_ok(ev.event_date)

evaluate(m, pat, encs, evs) ==
    CASE m = "CMS125" -> evaluate_cms125(pat, encs, evs)
      [] m = "CMS130" -> evaluate_cms130(pat, encs, evs)
      [] m = "CMS165" -> evaluate_cms165(pat, encs, evs)
      [] m = "CMS122" -> evaluate_cms122(pat, encs, evs)

\* C19: whichever the evaluator, a call on encounters or events with an
\* unparseable date does not raise, and returns what the evaluator returns
\* on the same input without the rows of unparseable date.
C19_BadDateRowSkipped ==
    (Returned /\ (\/ \E i \in DOMAIN encounters : ~GoodEncounter(encounters[i])
                  \/ \E i \in DOMAIN events : ~GoodEvent(events[i]))) =>
        /\ result # ValueError
        /\ result = evaluate(measure, patient, SelectSeq(encounters, GoodEncounter),
                             SelectSeq(events, GoodEvent))

\* Not a reading whose value cannot be read as a number.
ReadableRow(ev) ==
    ev.code \in {"8480-6", "8462-4", "4548-4"} => ev.value_num \in DOMAIN FloatTable

\* C20: for CMS165 and CMS122, numerator and evidence are those of the same
\* input without the blood-pressure / HbA1c rows whose value is empty or
\* not a number; so an HbA1c row of unreadable value, though the most
\* recent, does not hide an earlier reading.
C20_NonNumericRowSkipped ==
    (Returned /\ measure \in {"CMS165", "CMS122"} /\ result # ValueError
        /\ \E i \in DOMAIN events : ~ReadableRow(events[i])) =>
        LET expected == evaluate(measure, patient, encounters,
                                 SelectSeq(events, ReadableRow))
        IN  /\ result.numerator = expected.numerator
            /\ result.evidence = expected.evidence

(***************************************************************************)
(* The facade over the store, as the batch run uses it: preload_cohort,    *)
(* then evaluate_patient per id.  The files are present; p1 and p2 have a  *)
(* row in patients.csv, "ghost" has none; one events.csv has a row of      *)
(* unparseable date.  "CMS999" is a measure id the engine does not know.   *)
(***************************************************************************)
MaxFacadeCalls == 2

MeasureIds == Measures \cup {"CMS999"}

FacadeRow(id, ev) ==
    [patient_id |-> id, code |-> ev.code, event_date |-> ev.event_date,
     value_num |-> ev.value_num]

FacadeEventFiles(idx) ==
    LET Y == idx[1]
    IN  {<<>>,
         <<FacadeRow("p1", Event("77067", <<Y, 3, 1>>, "")),
           FacadeRow("p2", Event("I10", <<Y - 4, 1, 1>>, "")),
           FacadeRow("p2", Event("8480-6", <<Y, 4, 1>>, "135")),
           FacadeRow("p2", Event("8462-4", <<Y, 4, 1>>, "85")),
           FacadeRow("ghost", Event("77067", <<Y, 3, 1>>, ""))>>,
         <<FacadeRow("p2", Event("E11.9", <<Y - 4, 1, 1>>, "")),
           FacadeRow("p2", Event("4548-4", <<Y, 6, 1>>, "10.5")),
           FacadeRow("p1", Event("45378", <<Y - 2, 3, 1>>, "")),
           FacadeRow("p1", Event("Z90.13", <<Y - 4, 1, 1>>, ""))>>,
         <<FacadeRow("p1", Event("77067", <<Y, 3, 1>>, "")),
           FacadeRow("p1", Event("OTHER", BadDate(Y), ""))>>}

FacadePatients ==
    <<[patient_id |-> "p1", sex |-> "F", dob |-> <<1970, 1, 1>>],
      [patient_id |-> "p2", sex |-> "M", dob |-> <<1960, 1, 1>>]>>

FacadeEncounterFiles(idx) ==
    LET row(id) == [patient_id |-> id, encounter_date |-> <<idx[1], 5, 10>>]
    IN  {<<row("p1"), row("p2")>>, <<row("p2"), row("ghost")>>}

InitFacade ==
    /\ \E s \in {<<2025, 12, 31>>, <<2024, 12, 31>>} :
        /\ index_date = parse_date(s)
        /\ files \in [patients : {FacadePatients},
                      encounters : FacadeEncounterFiles(s),
                      events : FacadeEventFiles(s)]
    /\ measure = "CMS125"
    /\ patient = None
    /\ encounters = <<>>
    /\ events = <<>>
    /\ result = None
    /\ pc = "facade"
    /\ present = AllFiles
    /\ EmptyStore
    /\ RunnerUnused

FacadePreload(cohort_ids) ==
    /\ pc = "facade"
    /\ last_call.n < MaxFacadeCalls
    /\ Finish(preload_cohort(Store, cohort_ids), "preload", cohort_ids, None)
    /\ fetched' = fetched

FacadeGet(patient_id) ==
    /\ pc = "facade"
    /\ last_call.n < MaxFacadeCalls
    /\ LET o == ensure_loaded(Store, patient_id)
           ret == IF o.raised THEN None ELSE load_patient_data(o.st, patient_id)
       IN  /\ Finish(o, "get", {patient_id}, ret)
           /\ fetched' = IF o.raised \/ patient_id \in DOMAIN fetched THEN fetched
                         ELSE [k \in DOMAIN fetched \cup {patient_id} |->
                                  IF k = patient_id THEN ret ELSE fetched[k]]

\* The outcome of evaluate_all: that of the load, or the ValueError of an
\* evaluator; res is the value returned when nothing raised.
FacadeOutcome(patient_id) ==
    LET o == ensure_loaded(Store, patient_id)
        t == load_patient_data(o.st, patient_id)
        raised == o.raised \/ evaluate_all_raises(t[1], t[2], t[3])
    IN  [o |-> [o EXCEPT !.raised = raised],
         res |-> IF raised THEN None ELSE evaluate_all(t[1], t[2], t[3])]

EvaluateAll(patient_id) ==
    /\ pc = "facade"
    /\ last_call.n < MaxFacadeCalls
    /\ LET f == FacadeOutcome(patient_id)
       IN  Finish(f.o, "evaluate_all", {patient_id}, f.res)
    /\ fetched' = fetched

EvaluatePatient(patient_id, measure_id) ==
    /\ pc = "facade"
    /\ last_call.n < MaxFacadeCalls
    /\ LET f == FacadeOutcome(patient_id)
       IN  Finish(f.o, "evaluate_patient", {patient_id},
                  [measure_id |-> measure_id,
                   value |-> IF f.o.raised THEN None
                             ELSE evaluate_patient(f.res, measure_id)])
    /\ fetched' = fetched

NextFacade ==
    \/ \E cohort_ids \in SUBSET Ids : FacadePreload(cohort_ids)
    \/ \E patient_id \in Ids : FacadeGet(patient_id)
    \/ \E patient_id \in Ids : EvaluateAll(patient_id)
    \/ \E patient_id \in Ids, measure_id \in MeasureIds :
          EvaluatePatient(patient_id, measure_id)

SpecFacade == InitFacade /\ [][NextFacade]_vars

\* The id of the last call, and the data the cache holds for it.
CalledId == CHOOSE id \in Ids : last_call.ids = {id}

Cached == load_patient_data(Store, CalledId)

\* C21: evaluate_all returns the not-found marker for an id without a row
\* in patients.csv and otherwise a mapping of exactly the four measure ids;
\* evaluate_patient does not raise, returns (false, false, null) for such an
\* id or for an unknown measure id, and otherwise the denominator,
\* numerator and evidence of that measure's evaluator on the cached data.
C21_Facade ==
    /\ (last_call.op = "evaluate_all" /\ ~last_call.raised) =>
          IF CalledId \notin Known
          THEN last_call.ret = [error |-> "Patient not found"]
          ELSE DOMAIN last_call.ret = Measures
    /\ last_call.op = "evaluate_patient" =>
          /\ ~last_call.raised
          /\ IF CalledId \notin Known \/ last_call.ret.measure_id \notin Measures
             THEN last_call.ret.value = <<FALSE, FALSE, None>>
             ELSE LET r == evaluate(last_call.ret.measure_id,
                                    Cached[1], Cached[2], Cached[3])
                  IN  last_call.ret.value = <<r.denominator, r.numerator, r.evidence>>

\* The step is a call that fetches the data of id: load_patient_data,
\* evaluate_all or evaluate_patient.
FetchStep(id) ==
    /\ last_call'.n = last_call.n + 1
    /\ last_call'.op \in {"get", "evaluate_all", "evaluate_patient"}
    /\ last_call'.ids = {id}

\* C22: once a preload_cohort has returned, no load_patient_data and no
\* evaluation of an id of its cohort opens a file, whether or not the id
\* has a row in patients.csv.
C22_NoScanAfterPreload ==
    [][\A id \in preloaded : FetchStep(id) => last_call'.scans = 0]_vars

\* C22 witness: evaluate_patient of the preloaded id "ghost" has returned
\* without opening a file.
C22_Witness ==
    /\ last_call.op = "evaluate_patient" /\ last_call.ids = {"ghost"}
    /\ "ghost" \in preloaded /\ "ghost" \notin Known
    /\ last_call.scans = 0 /\ ~last_call.raised

MeasureResultFields ==
    {"initial_population", "denominator", "numerator", "exclusion",
     "exclusion_reason", "evidence"}

\* C23: whatever the evaluator and the return path, the returned result has
\* all the fields initial_population, denominator, numerator, exclusion,
\* exclusion_reason and evidence.
C23_ResultHasAllFields ==
    Returned => MeasureResultFields \subseteq DOMAIN result

(***************************************************************************)
(* One evaluator call, assignment by assignment: the result dictionary as  *)
(* the code builds it, from its creation to the return.  pc is the next    *)
(* block of the evaluator.                                                 *)
(***************************************************************************)
InitSteps ==
    /\ measure \in Measures
    /\ \E s \in {<<2024, 12, 31>>} :
        /\ index_date = parse_date(s)
        /\ patient \in Patients(s, measure)
        /\ encounters \in EncounterLists(s)
        /\ events \in EventLists(s, measure)
    /\ result = None
    /\ pc = "begin"
    /\ StoreUnused
    /\ RunnerUnused

Goto(r, next) ==
    /\ result' = r
    /\ pc' = next
    /\ UNCHANGED <<index_date, measure, patient, encounters, events>>
    /\ UNCHANGED store_vars
    /\ UNCHANGED llm_vars

\* result = {...}; if not patient (or not female, CMS125): return result
StepBegin ==
    /\ pc = "begin"
    /\ LET r == IF measure = "CMS122" THEN cms122_empty_result ELSE empty_result
       IN  IF patient = None \/ (measure = "CMS125" /\ patient.sex # "F")
           THEN Goto(r, "done")
           ELSE Goto(r, "age")

\* if lo <= age <= hi: result['initial_population'] = True
StepAge ==
    /\ pc = "age"
    /\ IF age_ok(measure, calculate_age(parse_date(patient.dob), index_date))
       THEN Goto([result EXCEPT !.initial_population = TRUE], "encounter")
       ELSE Goto(result, "encounter")

\* if not initial_population or not has_encounter: return result; CMS165
\* first resets initial_population and records debug_reason.
StepEncounter ==
    /\ pc = "encounter"
    /\ LET age_pass == age_ok(measure, calculate_age(parse_date(patient.dob), index_date))
           has_encounter == has_encounter_in_year(encounters)
       IN  IF ~age_pass \/ ~has_encounter
           THEN IF measure = "CMS165"
                THEN Goto([debug_reason |-> <<"Failed IP", age_pass, has_encounter>>]
                              @@ [result EXCEPT !.initial_population = FALSE], "done")
                ELSE Goto(result, "done")
           ELSE Goto(result, IF measure \in {"CMS165", "CMS122"}
                             THEN "diagnosis" ELSE "exclusion")

\* CMS165: if not has_htn: initial_population = False, debug_reason;
\* CMS122: if not has_diabetes: initial_population = False
StepDiagnosis ==
    /\ pc = "diagnosis"
    /\ IF measure = "CMS165"
       THEN IF ~cms165_flags(events).has_htn
            THEN Goto([debug_reason |->
                          <<"Failed IP: No valid hypertension diagnosis found">>]
                          @@ [result EXCEPT !.initial_population = FALSE], "exclusion")
            ELSE Goto(result, "exclusion")
       ELSE IF ~cms122_has_diabetes(events)
            THEN Goto([result EXCEPT !.initial_population = FALSE], "denominator")
            ELSE Goto(result, "denominator")

\* The exclusion tests of CMS125, CMS130 and (inside `if initial_population`)
\* CMS165.
StepExclusion ==
    /\ pc = "exclusion"
    /\ CASE measure = "CMS125" ->
              IF cms125_excluded(events)
              THEN Goto([result EXCEPT !.exclusion = TRUE,
                            !.exclusion_reason = "Bilateral mastectomy or equivalent"],
                        "denominator")
              ELSE Goto(result, "denominator")
         [] measure = "CMS130" ->
              Goto(cms130_exclusion_scan(events, result), "denominator")
         [] measure = "CMS165" ->
              LET reason == cms165_exclusion_reason(
                                calculate_age(parse_date(patient.dob), index_date),
                                cms165_flags(events))
              IN  IF result.initial_population /\ reason # "None"
                  THEN Goto([result EXCEPT !.exclusion = TRUE,
                                           !.exclusion_reason = reason], "denominator")
                  ELSE Goto(result, "denominator")

\* if not exclusion: denominator = True (CMS125, CMS130; CMS165 inside
\* `if initial_population`); CMS122: if initial_population: denominator = True
StepDenominator ==
    /\ pc = "denominator"
    /\ CASE measure \in {"CMS125", "CMS130"} -> Goto(set_denominator(result), "numerator")
         [] measure = "CMS165" ->
              Goto(IF result.initial_population THEN set_denominator(result)
                   ELSE result, "numerator")
         [] measure = "CMS122" ->
              Goto(IF result.initial_population
                   THEN [result EXCEPT !.denominator = TRUE] ELSE result, "numerator")

\* if denominator: ... numerator, evidence; return result
StepNumerator ==
    /\ pc = "numerator"
    /\ IF ~result.denominator THEN Goto(result, "done")
       ELSE CASE measure = "CMS125" ->
                   Goto(set_numerator(result, cms125_valid_mammos(events)), "done")
              [] measure = "CMS130" ->
                   Goto(set_numerator(result, cms130_valid_screenings(events)), "done")
              [] measure = "CMS165" -> Goto(cms165_numerator(result, events), "done")
              [] measure = "CMS122" -> Goto(cms122_numerator(result, events), "done")

NextSteps ==
    \/ StepBegin \/ StepAge \/ StepEncounter \/ StepDiagnosis
    \/ StepExclusion \/ StepDenominator \/ StepNumerator

SpecSteps == InitSteps /\ [][NextSteps]_vars

\* The blocks compose to the evaluator as a whole.
StepsAgreeWithCall ==
    Returned => result = evaluate(measure, patient, encounters, events)

ClassificationFlags == {"initial_population", "denominator", "exclusion", "numerator"}

\* C24: within one call, a flag among initial_population, denominator,
\* exclusion and numerator that has been set to true is not set back to
\* false before the call returns.
C24_NoTransitionReversed ==
    [][\A k \in ClassificationFlags : Flag(result, k) => Flag(result', k)]_vars

\* C24 amended: within one call, denominator, exclusion and numerator are
\* never set back to false once true; initial_population is set to true by
\* the age test only, and is set back to false only by the encounter test
\* or the diagnosis test, before any other flag has been set.
C24_OnlyPopulationReset ==
    [][/\ \A k \in ClassificationFlags \ {"initial_population"} :
              Flag(result, k) => Flag(result', k)
       /\ (~Flag(result, "initial_population") /\ Flag(result', "initial_population"))
              => pc = "age"
       /\ (Flag(result, "initial_population") /\ ~Flag(result', "initial_population"))
              => /\ pc \in {"encounter", "diagnosis"}
                 /\ \A k \in ClassificationFlags \ {"initial_population"} :
                        ~Flag(result, k)]_vars

\* C24 witness: the diagnosis test of CMS165 has just set initial_population
\* back to false for a patient of the age band with an encounter.
C24_Witness ==
    /\ pc = "exclusion" /\ measure = "CMS165"
    /\ ~result.initial_population
    /\ "debug_reason" \in DOMAIN result
    /\ has_encounter_in_year(encounters)

\* C25: a CMS130 patient excluded with both a colorectal-cancer row and a
\* total-colectomy row dated no later than the index year has the reason of
\* the first category, colorectal cancer, whatever the order of the rows.
C25_Cms130ReasonPrecedence ==
    (Returned /\ measure = "CMS130" /\ Flag(result, "exclusion")
        /\ RecordedIn({"C18.9"}, 0, index_date.year)
        /\ RecordedIn({"44150"}, 0, index_date.year)) =>
        result.exclusion_reason = "Colorectal Cancer"

(***************************************************************************)
(* The renderer.  RepresentationRenderer keeps each patient's events       *)
(* sorted by the event_date string, ascending and stable; render_structured*)
(* and render_note drop the events whose date string is below the cutoff   *)
(* and keep the last renderer_keep of the rest.  ISO date strings compare  *)
(* as their (year, month, day) triples do.                                 *)
(***************************************************************************)
renderer_cutoff == <<2020, 1, 1>>
renderer_keep == 400

\* a >= b on date strings
str_ge(a, b) ==
    \/ a[1] > b[1]
    \/ a[1] = b[1] /\ a[2] > b[2]
    \/ a[1] = b[1] /\ a[2] = b[2] /\ a[3] >= b[3]

RECURSIVE InsertAsc(_, _)
InsertAsc(ev, sorted) ==
    IF sorted = <<>> THEN <<ev>>
    ELSE LET last == sorted[Len(sorted)]
         IN  IF str_ge(ev.event_date, last.event_date)
             THEN Append(sorted, ev)
             ELSE Append(InsertAsc(ev, SubSeq(sorted, 1, Len(sorted) - 1)), last)

\* self._cache_events[p].sort(key=lambda x: x['event_date'])
RECURSIVE sort_by_event_date(_)
sort_by_event_date(evs) ==
    IF evs = <<>> THEN <<>>
    ELSE InsertAsc(evs[Len(evs)], sort_by_event_date(SubSeq(evs, 1, Len(evs) - 1)))

\* events = [e for e in events if e.get('event_date', '') >= '2020-01-01']
\* if len(events) > 400: events = events[-400:]
truncate(evs) ==
    LET kept == SelectSeq(evs, LAMBDA ev : str_ge(ev.event_date, renderer_cutoff))
    IN  IF Len(kept) > renderer_keep
        THEN SubSeq(kept, Len(kept) - renderer_keep + 1, Len(kept))
        ELSE kept

\* The event list render_structured and render_note put on the page.
rendered_events(evs) == truncate(sort_by_event_date(evs))

\* C26: at index date 2025-12-31, the event a returned result carries as
\* evidence is among the events the renderer keeps for the same patient.
C26_EvidenceIsRendered ==
    (Returned /\ index_date = date(2025, 12, 31)
        /\ "evidence" \in DOMAIN result /\ result.evidence # None) =>
        \E i \in DOMAIN rendered_events(events) :
            rendered_events(events)[i] = result.evidence

\* The lists holding the rows of s in every order.
Orderings(s) ==
    { [i \in DOMAIN s |-> s[f[i]]] :
        f \in { g \in [DOMAIN s -> DOMAIN s] : \A i, j \in DOMAIN s : g[i] = g[j] => i = j } }

\* C27: the flags initial_population, exclusion, denominator and numerator of
\* a returned result are those the evaluator returns for every reordering of
\* the events list and of the encounters list.
C27_OrderIndependentFlags ==
    (Returned /\ result # ValueError) =>
        \A encs \in Orderings(encounters), evs \in Orderings(events) :
            ~evaluator_raises(measure, patient, encs, evs) =>
                \A k \in ClassificationFlags :
                    Flag(evaluate(measure, patient, encs, evs), k) = Flag(result, k)

\* The rows of s are rows of t, each taken at most once, in the order of t.
RECURSIVE IsSubsequence(_, _)
IsSubsequence(s, t) ==
    IF s = <<>> THEN TRUE
    ELSE IF t = <<>> THEN FALSE
    ELSE IF Head(s) = Head(t) THEN IsSubsequence(Tail(s), Tail(t))
    ELSE IsSubsequence(s, Tail(t))

\* C28: with the three files present, after any sequence of preload_cohort
\* and load_patient_data calls each cached encounter list and each cached
\* event list holds the patient's rows of the file at most once each, in
\* file order.
C28_NoRowCachedTwice ==
    (pc = "store" /\ present = AllFiles) =>
        /\ \A id \in DOMAIN cache_encounters :
               IsSubsequence(cache_encounters[id], RowsOf(files.encounters, id))
        /\ \A id \in DOMAIN cache_events :
               IsSubsequence(cache_events[id], RowsOf(files.events, id))

(***************************************************************************)
(* The standalone CMS125 cohort builder, build_cms125_cohort.build_cohort, *)
(* taken for one patient: the builder's sets are filters of the file rows  *)
(* by patient id, so membership of a patient is a function of that         *)
(* patient's rows.  Its own parse_date returns None on an unparseable      *)
(* string and such rows are skipped.                                       *)
(***************************************************************************)
MEASUREMENT_YEAR_END == date(2025, 12, 31)
MEASUREMENT_YEAR_START == date(2025, 1, 1)
MAMMOGRAPHY_WINDOW_START == date(2023, 10, 1)

\* Step 1: sex F and 52 <= age <= 74 at MEASUREMENT_YEAR_END
builder_female_52_74(pat) ==
    /\ pat.sex = "F"
    /\ strptime_ok(pat.dob)
    /\ LET age == calculate_age(parse_date(pat.dob), MEASUREMENT_YEAR_END)
       IN  52 <= age /\ age <= 74

\* Step 2: an encounter dated within the measurement year
builder_has_2025_visit(encs) ==
    \E i \in DOMAIN encs :
        /\ strptime_ok(encs[i].encounter_date)
        /\ date_le(MEASUREMENT_YEAR_START, parse_date(encs[i].encounter_date))
        /\ date_le(parse_date(encs[i].encounter_date), MEASUREMENT_YEAR_END)

builder_initial_population(pat, encs) ==
    builder_female_52_74(pat) /\ builder_has_2025_visit(encs)

\* Step 3: the rows the scan does not skip, and what it collects from them
builder_scanned(evs) ==
    LET keep(ev) == /\ strptime_ok(ev.event_date)
                    /\ ~date_lt(MEASUREMENT_YEAR_END, parse_date(ev.event_date))
    IN  SelectSeq(evs, keep)

builder_mammo_in_window(evs) ==
    \E i \in DOMAIN builder_scanned(evs) :
        /\ builder_scanned(evs)[i].code \in code_maps.CMS125.Mammography
        /\ date_le(MAMMOGRAPHY_WINDOW_START, parse_date(builder_scanned(evs)[i].event_date))

builder_excluded(evs) ==
    LET map_bcs == code_maps.CMS125
        seen(codes) == \E i \in DOMAIN builder_scanned(evs) :
                           builder_scanned(evs)[i].code \in codes
    IN  \/ seen(map_bcs.BilateralMastectomy)
        \/ /\ seen(map_bcs.UnilateralMastectomyLeft \cup map_bcs.AbsenceOfLeftBreast)
           /\ seen(map_bcs.UnilateralMastectomyRight \cup map_bcs.AbsenceOfRightBreast)

\* Step 4: denominator = initial_population - excluded
builder_denominator(pat, encs, evs) ==
    builder_initial_population(pat, encs) /\ ~builder_excluded(evs)

\* numerator = denominator & patients_with_mammo_in_window
builder_numerator(pat, encs, evs) ==
    builder_denominator(pat, encs, evs) /\ builder_mammo_in_window(evs)

\* C29: at index date 2025-12-31 the cohort builder puts a patient in its
\* denominator and numerator sets exactly when evaluate_cms125 returns the
\* denominator and numerator flags true.
C29_BuilderAgreesWithEngine ==
    (Returned /\ measure = "CMS125" /\ index_date = MEASUREMENT_YEAR_END
        /\ patient # None /\ result # ValueError) =>
        /\ builder_denominator(patient, encounters, events) = result.denominator
        /\ builder_numerator(patient, encounters, events) = result.numerator

(***************************************************************************)
(* The LLM runner, LLMRunner in run_inference.py.  A JSON text is kept as  *)
(* the value it encodes together with the form of the text around it: the  *)
(* bare JSON, a ```json fence, a <think> block before the JSON, or text    *)
(* that is no JSON at all.  The content of a response may also be None.    *)
(***************************************************************************)
Providers == {"openai", "groq", "openrouter", "gemini"}

\* self.provider = None and self.client = None: no API key, no client
NoProvider == "None"

\* max_retries = 3 (OpenAI-compatible providers) / max_retries = 5 (Gemini)
max_retries(p) == IF p = "gemini" THEN 5 ELSE 3

\* json.dumps(value)
json_dumps(value) == [form |-> "json", value |-> value]

\* the <think> block and the markdown fence removed from the response text
clean_response(raw) ==
    IF raw.form \in {"fenced", "think"} THEN [raw EXCEPT !.form = "json"] ELSE raw

\* raw_response.strip() raises on None, json.loads on text that is no JSON
parse_failed(raw) == raw = None \/ clean_response(raw).form # "json"

\* The record evaluate_patient returns for the string _call_llm_api returned.
parse_response(raw) ==
    IF parse_failed(raw)
    THEN [success |-> FALSE, raw_output |-> raw,
          error |-> "Failed to parse LLM valid JSON"]
    ELSE [success |-> TRUE, raw_output |-> raw, parsed |-> clean_response(raw).value]

\* What the fallback mock answers.
MockAnswer ==
    [denominator_met |-> TRUE, numerator_met |-> FALSE, audit_evidence |-> "None"]

\* What an API call can return as the content of its response ...
Contents ==
    {None, [form |-> "text", value |-> None]}
        \cup {[form |-> f, value |-> [denominator_met |-> d, numerator_met |-> n]] :
                 f \in {"json", "fenced", "think"}, d \in BOOLEAN, n \in BOOLEAN}

\* ... and the exceptions it can raise, all of them subclasses of Exception.
ApiErrors == {"429 quota", "401 authentication", "timeout"}

\* except Exception as e
except_Exception(e) == e \in ApiErrors

\* The runner after __init__: a provider with its client, or neither.
InitRunner ==
    /\ index_date = parse_date(<<2025, 12, 31>>)
    /\ measure \in Measures
    /\ patient = None
    /\ encounters = <<>>
    /\ events = <<>>
    /\ result = None
    /\ pc = "runner"
    /\ StoreUnused
    /\ provider \in Providers \cup {NoProvider}
    /\ runner_pc = "idle"
    /\ attempt = 0
    /\ api_calls = 0
    /\ last_error = ""
    /\ exhausted = FALSE
    /\ raw_response = None
    /\ record = None

RunnerFrame == UNCHANGED <<eval_vars, store_vars, provider>>

\* evaluate_patient up to the call of _call_llm_api: the prompt style is
\* looked up in the templates, and a missing one raises ValueError.
BeginEvaluatePatient(template_found) ==
    /\ pc = "runner" /\ runner_pc = "idle"
    /\ IF template_found
       THEN runner_pc' = "calling" /\ record' = record
       ELSE runner_pc' = "raised" /\ record' = ValueError
    /\ UNCHANGED <<attempt, api_calls, last_error, exhausted, raw_response>>
    /\ RunnerFrame

\* _call_llm_api without a client: the fallback mock.
MockCall ==
    /\ pc = "runner" /\ runner_pc = "calling" /\ provider = NoProvider
    /\ raw_response' = json_dumps(MockAnswer)
    /\ runner_pc' = "returned"
    /\ UNCHANGED <<attempt, api_calls, last_error, exhausted, record>>
    /\ RunnerFrame

\* One pass of the retry loop in which the API call returns.
AttemptReturns(content) ==
    /\ pc = "runner" /\ runner_pc = "calling" /\ provider # NoProvider
    /\ api_calls' = api_calls + 1
    /\ raw_response' = content
    /\ runner_pc' = "returned"
    /\ UNCHANGED <<attempt, last_error, exhausted, record>>
    /\ RunnerFrame

\* One pass of the retry loop in which the API call raises e: sleep and go
\* round again, or on the last pass return the error payload.
AttemptRaises(e) ==
    /\ pc = "runner" /\ runner_pc = "calling" /\ provider # NoProvider
    /\ api_calls' = api_calls + 1
    /\ last_error' = e
    /\ IF ~except_Exception(e)
       THEN /\ runner_pc' = "propagated"
            /\ UNCHANGED <<attempt, exhausted, raw_response>>
       ELSE IF attempt < max_retries(provider) - 1
       THEN /\ attempt' = attempt + 1
            /\ UNCHANGED <<runner_pc, exhausted, raw_response>>
       ELSE /\ raw_response' = json_dumps([error |-> e])
            /\ exhausted' = TRUE
            /\ runner_pc' = "returned"
            /\ attempt' = attempt
    /\ record' = record
    /\ RunnerFrame

\* evaluate_patient after _call_llm_api: clean, json.loads, build the record.
ParseResponse ==
    /\ pc = "runner" /\ runner_pc = "returned"
    /\ record' = parse_response(raw_response)
    /\ runner_pc' = "done"
    /\ UNCHANGED <<attempt, api_calls, last_error, exhausted, raw_response>>
    /\ RunnerFrame

NextRunner ==
    \/ \E template_found \in BOOLEAN : BeginEvaluatePatient(template_found)
    \/ MockCall
    \/ \E content \in Contents : AttemptReturns(content)
    \/ \E e \in ApiErrors : AttemptRaises(e)
    \/ ParseResponse

SpecRunner == InitRunner /\ [][NextRunner]_vars

\* C30: _call_llm_api makes at most max_retries API calls (3 for
\* OpenAI-compatible providers, 5 for Gemini) and lets no exception out; when
\* every attempt failed it returns the error payload of the last exception,
\* and the record evaluate_patient builds from it does not have success true.
C30_RetryHandling ==
    pc = "runner" =>
        /\ api_calls <= max_retries(provider)
        /\ runner_pc # "propagated"
        /\ (exhausted /\ runner_pc \in {"returned", "done"}) =>
               /\ api_calls = max_retries(provider)
               /\ raw_response = json_dumps([error |-> last_error])
        /\ (exhausted /\ runner_pc = "done") => ~record.success

====
